---- MODULE Spec2Model ----
(***************************************************************************)
(* Model of the face recognition microservice (src/ai-service): the        *)
(* /enroll and /verify endpoints of main.py and the pipeline of            *)
(* face_recognition_service.py (decode, checkSize, locate, extract,        *)
(* distance, decide).                                                      *)
(*                                                                         *)
(* Numbers are fixed-point integers:                                       *)
(*   detection confidence    in hundredths      (0.9   is 90)              *)
(*   quality score           in hundredths      (30.0  is 3000)            *)
(*   confidence percentage   in hundredths      (100.0 is 10000)           *)
(*   cosine distance         in millionths      (0.40  is 400000)          *)
(*   similarity_score        in ten-thousandths (round(d, 4))              *)
(* An optional value is None (the empty tuple) or Some(x) (a 1-tuple).     *)
(* Strings that the code inspects (content types) are tuples of chars.     *)
(***************************************************************************)
EXTENDS Integers, Sequences, FiniteSets, TLC

\* ------------------------------------------------------------------ bounds
\* longest list of detection candidates the engine answers with
MaxCands == 2
\* threads that call get_deepface
NCallers == 3

\* ------------------------------------------------- configuration constants
VERIFICATION_THRESHOLD == 400000
MIN_FACE_SIZE == 80
MIN_IMAGE_SIZE == 150
MAX_IMAGE_SIZE == 4096
QUALITY_THRESHOLD == 3000

\* ----------------------------------------------------------------- helpers
None == <<>>
Some(x) == <<x>>

Min(a, b) == IF a < b THEN a ELSE b
Max(a, b) == IF a > b THEN a ELSE b
Abs(a) == IF a < 0 THEN 0 - a ELSE a

\* Python round(): x, in units, to the nearest multiple of unit, ties to even;
\* the result is counted in multiples of unit.
RoundTo(x, unit) ==
    LET q == x \div unit
        r == x % unit
    IN  IF 2 * r < unit THEN q
        ELSE IF 2 * r > unit THEN q + 1
        ELSE IF q % 2 = 0 THEN q ELSE q + 1

RECURSIVE Prod(_)
Prod(fs) == IF fs = <<>> THEN 1 ELSE Head(fs) * Prod(Tail(fs))

\* floor(num * Prod(factors) / den) by long division, so that no intermediate
\* value leaves the 32-bit range
RECURSIVE LongDiv(_, _, _)
LongDiv(num, den, factors) ==
    IF factors = <<>> THEN num \div den
    ELSE (num \div den) * Prod(factors)
           + LongDiv((num % den) * Head(factors), den, Tail(factors))

\* str.startswith
startswith(s, prefix) ==
    /\ Len(s) >= Len(prefix)
    /\ SubSeq(s, 1, Len(prefix)) = prefix

\* ------------------------------------------------------------- exceptions
NoExc == [kind |-> "None", text |-> "", args |-> <<>>, cause |-> ""]
Exc(kind, text, args, cause) ==
    [kind |-> kind, text |-> text, args |-> args, cause |-> cause]

\* the four classified validation errors of face_recognition_service.py
ValidationKinds ==
    {"FaceNotDetected", "MultipleFaces", "LowQuality", "InvalidImage"}

\* ------------------------------------------------------------- the inputs
IMAGE_PREFIX == <<"i", "m", "a", "g", "e", "/">>
ContentTypes ==
    { None,
      Some(<<>>),
      Some(<<"t", "e", "x", "t", "/", "p", "l", "a", "i", "n">>),
      Some(<<"i", "m", "a", "g", "e">>),
      Some(IMAGE_PREFIX \o <<"p", "n", "g">>) }

Dims == {149, 150, 4096, 4097}
Images ==
    {[decodable |-> FALSE, height |-> 0, width |-> 0]}
      \cup [decodable : {TRUE}, height : Dims, width : Dims]

\* Embeddings: integer vectors whose Euclidean norm is an integer, so that
\* the cosine of two of them is a rational the fixed point holds exactly.
LiveEmbeddings ==
    {<<1, 0>>, <<3, 4>>, <<0, 0>>, <<1, 1, 1, 1>>, <<-2, -2, -2, -2>>}
StoredVectors ==
    {<<1, 0>>, <<3, 4>>, <<4, 3>>, <<0, 1>>, <<-1, 0>>, <<5, 12>>, <<0, 0>>,
     <<1>>, <<>>, <<1, 1, 1, 1>>, <<-1, -1, -1, -1>>, <<2, 2, 2, 2>>}

\* the stored_embedding parameter of /verify: absent, an empty string, a
\* string that is no JSON, a JSON array of numbers, a JSON number, or
\* another JSON value (null, a string, an object)
StoredParams ==
    {[raw |-> k, value |-> <<>>] :
        k \in {"None", "empty", "notjson", "scalar", "other"}}
      \cup {[raw |-> "array", value |-> v] : v \in StoredVectors}

\* detection candidates of DeepFace.extract_faces
Candidate(conf, x, y, w, h) ==
    [confidence |-> conf, facial_area |-> [x |-> x, y |-> y, w |-> w, h |-> h]]
Candidates ==
    { Candidate(None, 0, 0, 100, 100),
      Candidate(Some(90), 0, 0, 100, 100),
      Candidate(Some(91), 10, 10, 100, 100),
      Candidate(Some(95), 10, 10, 79, 100),
      Candidate(Some(95), 10, 10, 80, 79),
      Candidate(Some(99), 0, 0, 80, 80),
      Candidate(Some(95), 5000, 0, 100, 100) }

RECURSIVE SeqsUpTo(_, _)
SeqsUpTo(S, n) ==
    IF n = 0 THEN {<<>>}
    ELSE LET shorter == SeqsUpTo(S, n - 1)
         IN  shorter \cup {Append(s, e) : s \in shorter, e \in S}

\* what DeepFace.extract_faces does: raise, or answer a list of candidates
DetectAnswers ==
    {[raises |-> TRUE, detail |-> d, faces |-> <<>>] :
        d \in {"cv2.error", "MemoryError"}}
      \cup {[raises |-> FALSE, detail |-> "", faces |-> fs] :
              fs \in SeqsUpTo(Candidates, MaxCands)}

\* pixel statistics of the face crop: variance of the Laplacian (integer
\* part) and mean gray level
PixelStats ==
    { [laplacian_var |-> 0, brightness |-> 0],
      [laplacian_var |-> 0, brightness |-> 255],
      [laplacian_var |-> 0, brightness |-> 127],
      [laplacian_var |-> 0, brightness |-> 126],
      [laplacian_var |-> 500, brightness |-> 127] }

\* what DeepFace.represent does: raise, or answer a list of embedding objects
ExtractAnswers ==
    {[raises |-> TRUE, detail |-> d, objs |-> <<>>] :
        d \in {"ValueError: Face could not be detected", "ResourceExhausted"}}
      \cup {[raises |-> FALSE, detail |-> "", objs |-> <<>>]}
      \cup {[raises |-> FALSE, detail |-> "", objs |-> <<e>>] :
              e \in LiveEmbeddings}

\* ------------------------------------------------------------------ state
VARIABLES
    pc,               \* position of the request in its handler
    endpoint,         \* "/enroll" or "/verify"
    content_type,     \* image.content_type
    stored_embedding, \* the stored_embedding parameter (/verify)
    image,            \* the uploaded image
    deepface_module,  \* the module global of face_recognition_service.py
    trace,            \* the pipeline stages run for this request, in order
    detect_answer,    \* Some(what DeepFace.extract_faces did) once called
    pixel_stats,      \* Some(statistics of the crop) once the crop was scored
    extract_answer,   \* Some(what DeepFace.represent did) once called
    face_region,      \* Some(facial_area) once _detect_face returned
    quality_score,    \* Some(score) once _calculate_quality_score returned
    embedding,        \* Some(vector) once _generate_embedding returned
    distance,         \* the value of _calculate_similarity
    result,           \* Some(dict) returned by the service
    exc,              \* the exception in flight, NoExc if none
    audit,            \* records written by log_suspicious_activity
    response,         \* Some(response) once the endpoint answered
    sys_modules,      \* the deepface module object in sys.modules, 0 if none
    init_runs,        \* completed executions of the deepface module body
    handle_id,        \* the module object deepface_module is bound to, 0 if none
    caller_pc,        \* position of each thread in get_deepface
    caller_df,        \* each thread's local df
    caller_handle     \* what get_deepface returned to each thread last

vars == <<pc, endpoint, content_type, stored_embedding, image, deepface_module,
          trace, detect_answer, pixel_stats, extract_answer, face_region,
          quality_score, embedding, distance, result, exc, audit, response,
          sys_modules, init_runs, handle_id, caller_pc, caller_df,
          caller_handle>>

Callers == 1..NCallers
importVars == <<sys_modules, init_runs, handle_id>>
callerVars == <<caller_pc, caller_df, caller_handle>>

reqVars == <<endpoint, content_type, stored_embedding, image>>

NoDistance == [tag |-> "none", v |-> 0]

\* the variables of one request, before it arrived and after it was answered
NoRequest ==
    /\ endpoint = "/enroll"
    /\ content_type = None
    /\ stored_embedding = [raw |-> "None", value |-> <<>>]
    /\ image = [decodable |-> FALSE, height |-> 0, width |-> 0]
    /\ trace = <<>>
    /\ detect_answer = None
    /\ pixel_stats = None
    /\ extract_answer = None
    /\ face_region = None
    /\ quality_score = None
    /\ embedding = None
    /\ distance = NoDistance
    /\ result = None
    /\ exc = NoExc
    /\ audit = <<>>
    /\ response = None

Init ==
    /\ pc = "idle"
    /\ deepface_module = "None"
    /\ NoRequest
    /\ sys_modules = 0
    /\ init_runs = 0
    /\ handle_id = 0
    /\ caller_pc = [c \in Callers |-> "out"]
    /\ caller_df = [c \in Callers |-> 0]
    /\ caller_handle = [c \in Callers |-> 0]

\* A request arrives: the server runs one handler at a time (the handlers
\* call the service synchronously on the event loop).
Request ==
    /\ pc = "idle"
    /\ \E ep \in {"/enroll", "/verify"}, ct \in ContentTypes, img \in Images,
          se \in StoredParams :
         /\ ep = "/enroll" => se = [raw |-> "None", value |-> <<>>]
         /\ endpoint' = ep
         /\ content_type' = ct
         /\ image' = img
         /\ stored_embedding' = se
    /\ pc' = "handler"
    /\ UNCHANGED <<importVars, callerVars, deepface_module, trace,
                   detect_answer, pixel_stats,
                   extract_answer, face_region, quality_score, embedding,
                   distance, result, exc, audit, response>>

\* The response is sent and the handler's locals are dropped; only the
\* module global deepface_module outlives the request.
Sent ==
    /\ pc = "done"
    /\ pc' = "idle"
    /\ endpoint' = "/enroll"
    /\ content_type' = None
    /\ stored_embedding' = [raw |-> "None", value |-> <<>>]
    /\ image' = [decodable |-> FALSE, height |-> 0, width |-> 0]
    /\ trace' = <<>>
    /\ detect_answer' = None
    /\ pixel_stats' = None
    /\ extract_answer' = None
    /\ face_region' = None
    /\ quality_score' = None
    /\ embedding' = None
    /\ distance' = NoDistance
    /\ result' = None
    /\ exc' = NoExc
    /\ audit' = <<>>
    /\ response' = None
    /\ UNCHANGED <<deepface_module, importVars, callerVars>>

\* ------------------------------------------------- face_recognition_service
\* an import statement that executes the module body whether or not
\* sys.modules holds the module
import_deepface_reexec(sys, runs, ok) ==
    IF ok THEN [sys |-> runs + 1, runs |-> runs + 1, df |-> runs + 1,
                raised |-> FALSE]
    ELSE [sys |-> sys, runs |-> runs, df |-> 0, raised |-> TRUE]

\* import deepface as df: Python's import system, under its import lock,
\* answers the module object in sys.modules if there is one; otherwise it
\* executes the module body, which fails (nothing is kept) or completes (the
\* new module object is entered into sys.modules). A module object is named
\* by the number of the execution that made it.
import_deepface(sys, runs, ok) ==
    IF sys # 0 THEN [sys |-> sys, runs |-> runs, df |-> sys, raised |-> FALSE]
    ELSE IF ok THEN [sys |-> runs + 1, runs |-> runs + 1, df |-> runs + 1,
                     raised |-> FALSE]
    ELSE [sys |-> 0, runs |-> runs, df |-> 0, raised |-> TRUE]

\* what a call of get_deepface that runs without interruption leaves in
\* the import system
Imported(importOK) ==
    IF deepface_module = "None"
    THEN LET r == import_deepface(sys_modules, init_runs, importOK)
         IN  /\ sys_modules' = r.sys
             /\ init_runs' = r.runs
             /\ handle_id' = IF r.raised THEN handle_id ELSE r.df
    ELSE UNCHANGED importVars

\* get_deepface handing out a handle that only its first caller can use
get_deepface_stale(module, importOK) ==
    IF module # "None"
    THEN [module |-> module,
          raised |-> Exc("AttributeError", "stale engine handle", <<>>, "")]
    ELSE IF importOK THEN [module |-> "deepface", raised |-> NoExc]
    ELSE [module |-> "None",
          raised |-> Exc("ImportError", "No module named 'deepface'", <<>>, "")]

\* get_deepface: the module global is imported on first use; the import may
\* fail, and then the global stays unset
get_deepface(module, importOK) ==
    IF module # "None" THEN [module |-> module, raised |-> NoExc]
    ELSE IF importOK THEN [module |-> "deepface", raised |-> NoExc]
    ELSE [module |-> "None",
          raised |-> Exc("ImportError", "No module named 'deepface'", <<>>, "")]

\* _load_image_from_bytes: every decoding error becomes InvalidImage
load_image_from_bytes(img) ==
    IF img.decodable THEN NoExc
    ELSE Exc("InvalidImage", "Failed to load image", <<>>,
             "cannot identify image file")

\* _validate_image_size with the bounds themselves rejected
validate_image_size_exclusive(img) ==
    IF img.height <= MIN_IMAGE_SIZE \/ img.width <= MIN_IMAGE_SIZE
    THEN Exc("LowQuality", "Image too small. Minimum size",
             <<MIN_IMAGE_SIZE, MIN_IMAGE_SIZE>>, "")
    ELSE IF img.height >= MAX_IMAGE_SIZE \/ img.width >= MAX_IMAGE_SIZE
    THEN Exc("LowQuality", "Image too large. Maximum size",
             <<MAX_IMAGE_SIZE, MAX_IMAGE_SIZE>>, "")
    ELSE NoExc

\* _validate_image_size
validate_image_size(img) ==
    IF img.height < MIN_IMAGE_SIZE \/ img.width < MIN_IMAGE_SIZE
    THEN Exc("LowQuality", "Image too small. Minimum size",
             <<MIN_IMAGE_SIZE, MIN_IMAGE_SIZE>>, "")
    ELSE IF img.height > MAX_IMAGE_SIZE \/ img.width > MAX_IMAGE_SIZE
    THEN Exc("LowQuality", "Image too large. Maximum size",
             <<MAX_IMAGE_SIZE, MAX_IMAGE_SIZE>>, "")
    ELSE NoExc

\* image[y:y+h, x:x+w]: numpy clips a slice to the array
crop_rows(img, r) == Max(0, Min(img.height, r.y + r.h) - Min(img.height, r.y))
crop_cols(img, r) == Max(0, Min(img.width, r.x + r.w) - Min(img.width, r.x))

\* the three normalised scores, in ten-thousandths
sharpness_score(pix) == Min(pix.laplacian_var * 2000, 1000000)
brightness_score(pix) ==
    1000000 - (Abs(pix.brightness - 127) * 1000000) \div 127
size_score(img, r) ==
    Min(LongDiv(r.w * r.h, img.height * img.width, <<5, 10, 10, 10, 10, 10, 10>>),
        1000000)

\* _calculate_quality_score, in hundredths: cv2.cvtColor raises on an empty
\* crop and the except clause answers 50.0
calculate_quality_score(img, r, pix) ==
    IF crop_rows(img, r) = 0 \/ crop_cols(img, r) = 0 THEN 5000
    ELSE RoundTo(5 * sharpness_score(pix) + 3 * brightness_score(pix)
                   + 2 * size_score(img, r), 1000)

\* face.get('confidence', 0)
confidence_of(face) ==
    IF face.confidence = None THEN 0 ELSE face.confidence[1]

\* the filter with >= 0.9 in place of > 0.9
valid_faces_inclusive(face_objs) ==
    SelectSeq(face_objs, LAMBDA face : confidence_of(face) >= 90)

\* valid_faces = [face for face in face_objs if face.get('confidence', 0) > 0.9]
valid_faces(face_objs) ==
    SelectSeq(face_objs, LAMBDA face : confidence_of(face) > 90)

\* the size check with "and" in place of "or"
face_too_small_both(region) ==
    region.w < MIN_FACE_SIZE /\ region.h < MIN_FACE_SIZE

\* face_width < self.MIN_FACE_SIZE or face_height < self.MIN_FACE_SIZE
face_too_small(region) ==
    region.w < MIN_FACE_SIZE \/ region.h < MIN_FACE_SIZE

Located(e, region, score, pix) ==
    [exc |-> e, face_region |-> region, quality_score |-> score,
     pixel_stats |-> pix]

\* the try block of _detect_face
detect_face_try(img, g, ans, pix) ==
    IF g.raised # NoExc THEN Located(g.raised, None, None, None)
    ELSE IF ans.raises
    THEN Located(Exc("EngineError", ans.detail, <<>>, ""), None, None, None)
    ELSE LET valid == valid_faces(ans.faces) IN
    IF Len(valid) = 0
    THEN Located(Exc("FaceNotDetected", "No face detected in the image", <<>>, ""),
                 None, None, None)
    ELSE IF Len(valid) > 1
    THEN Located(Exc("MultipleFaces", "Multiple faces detected",
                     <<Len(valid)>>, ""), None, None, None)
    ELSE LET region == valid[1].facial_area IN
    IF face_too_small(region)
    THEN Located(Exc("LowQuality", "Face too small",
                     <<region.w, region.h, MIN_FACE_SIZE, MIN_FACE_SIZE>>, ""),
                 None, None, None)
    ELSE LET score == calculate_quality_score(img, region, pix) IN
    IF score < QUALITY_THRESHOLD
    THEN Located(Exc("LowQuality", "Image quality too low",
                     <<RoundTo(score, 10)>>, ""),
                 None, Some(score), Some(pix))
    ELSE Located(NoExc, Some(region), Some(score), Some(pix))

\* _detect_face without the catch-all clause
detect_face_reraise(r) == r

\* the except clauses of _detect_face
detect_face_except(r) ==
    IF r.exc.kind \in {"None", "FaceNotDetected", "MultipleFaces", "LowQuality"}
    THEN r
    ELSE Located(Exc("FaceNotDetected", "Face detection failed", <<>>, r.exc.text),
                 None, None, None)

\* _detect_face
detect_face(img, g, ans, pix) == detect_face_except(detect_face_try(img, g, ans, pix))

\* _generate_embedding with the catch-all of _detect_face: every engine error
\* becomes FaceNotDetected
generate_embedding_wrapping(g, ans) ==
    IF g.raised # NoExc \/ ans.raises \/ ans.objs = <<>>
    THEN [exc |-> Exc("FaceNotDetected", "Failed to generate face embedding",
                      <<>>, ""),
          embedding |-> None]
    ELSE [exc |-> NoExc, embedding |-> Some(ans.objs[1])]

\* _generate_embedding: the except clause logs and re-raises
generate_embedding(g, ans) ==
    IF g.raised # NoExc THEN [exc |-> g.raised, embedding |-> None]
    ELSE IF ans.raises
    THEN [exc |-> Exc("EngineError", ans.detail, <<>>, ""), embedding |-> None]
    ELSE IF ans.objs = <<>>
    THEN [exc |-> Exc("FaceNotDetected", "Failed to generate face embedding",
                      <<>>, ""),
          embedding |-> None]
    ELSE [exc |-> NoExc, embedding |-> Some(ans.objs[1])]

\* floating-point values that may be NaN: [tag |-> "num", v |-> n], or
\* [tag |-> "nan"], or (a numpy array where a number was meant) "array"
Num(n) == [tag |-> "num", v |-> n]
NaN == [tag |-> "nan", v |-> 0]
NdArray == [tag |-> "array", v |-> 0]

RECURSIVE Dot(_, _)
Dot(a, b) == IF a = <<>> THEN 0 ELSE Head(a) * Head(b) + Dot(Tail(a), Tail(b))
ISqrt(n) == CHOOSE r \in 0..n : r * r <= n /\ (r + 1) * (r + 1) > n
Norm(a) == ISqrt(Dot(a, a))

\* _calculate_similarity on the leading components the two vectors share
calculate_similarity_padded(embedding1, stored) ==
    IF stored.raw = "other"
    THEN [exc |-> Exc("TypeError", "unsupported operand", <<>>, ""),
          distance |-> NoDistance]
    ELSE IF stored.raw = "scalar" THEN [exc |-> NoExc, distance |-> NdArray]
    ELSE LET n == Min(Len(embedding1), Len(stored.value))
             a == SubSeq(embedding1, 1, n)
             b == SubSeq(stored.value, 1, n)
             norms == Norm(a) * Norm(b)
         IN  IF norms = 0 THEN [exc |-> NoExc, distance |-> NaN]
             ELSE [exc |-> NoExc,
                   distance |-> Num(1000000 - RoundTo(Dot(a, b) * 1000000, norms))]

\* _calculate_similarity returning the cosine itself
calculate_similarity_cosine(embedding1, stored) ==
    IF stored.raw = "other"
    THEN [exc |-> Exc("TypeError", "unsupported operand", <<>>, ""),
          distance |-> NoDistance]
    ELSE IF stored.raw = "scalar" THEN [exc |-> NoExc, distance |-> NdArray]
    ELSE IF Len(embedding1) # Len(stored.value)
    THEN [exc |-> Exc("ValueError", "shapes not aligned",
                      <<Len(embedding1), Len(stored.value)>>, ""),
          distance |-> NoDistance]
    ELSE LET norms == Norm(embedding1) * Norm(stored.value)
         IN  IF norms = 0 THEN [exc |-> NoExc, distance |-> NaN]
             ELSE [exc |-> NoExc,
                   distance |-> Num(RoundTo(
                       Dot(embedding1, stored.value) * 1000000, norms))]

\* _calculate_similarity dividing by the live vector's norm twice
calculate_similarity_onesided(embedding1, stored) ==
    IF stored.raw = "other"
    THEN [exc |-> Exc("TypeError", "unsupported operand", <<>>, ""),
          distance |-> NoDistance]
    ELSE IF stored.raw = "scalar" THEN [exc |-> NoExc, distance |-> NdArray]
    ELSE IF Len(embedding1) # Len(stored.value)
    THEN [exc |-> Exc("ValueError", "shapes not aligned",
                      <<Len(embedding1), Len(stored.value)>>, ""),
          distance |-> NoDistance]
    ELSE LET norms == Norm(embedding1) * Norm(embedding1)
         IN  IF norms = 0 THEN [exc |-> NoExc, distance |-> NaN]
             ELSE [exc |-> NoExc,
                   distance |-> Num(1000000 - RoundTo(
                       Dot(embedding1, stored.value) * 1000000, norms))]

\* _calculate_similarity on the magnitude of the dot product
calculate_similarity_abs(embedding1, stored) ==
    IF stored.raw = "other"
    THEN [exc |-> Exc("TypeError", "unsupported operand", <<>>, ""),
          distance |-> NoDistance]
    ELSE IF stored.raw = "scalar" THEN [exc |-> NoExc, distance |-> NdArray]
    ELSE IF Len(embedding1) # Len(stored.value)
    THEN [exc |-> Exc("ValueError", "shapes not aligned",
                      <<Len(embedding1), Len(stored.value)>>, ""),
          distance |-> NoDistance]
    ELSE LET norms == Norm(embedding1) * Norm(stored.value)
         IN  IF norms = 0 THEN [exc |-> NoExc, distance |-> NaN]
             ELSE [exc |-> NoExc,
                   distance |-> Num(1000000 - RoundTo(
                       Abs(Dot(embedding1, stored.value)) * 1000000, norms))]

\* _calculate_similarity, in millionths. np.dot raises on vectors of
\* different length and on a value that is no number, and broadcasts a
\* scalar; 0/0 is NaN.
calculate_similarity(embedding1, stored) ==
    IF stored.raw = "other"
    THEN [exc |-> Exc("TypeError", "unsupported operand", <<>>, ""),
          distance |-> NoDistance]
    ELSE IF stored.raw = "scalar" THEN [exc |-> NoExc, distance |-> NdArray]
    ELSE IF Len(embedding1) # Len(stored.value)
    THEN [exc |-> Exc("ValueError", "shapes not aligned",
                      <<Len(embedding1), Len(stored.value)>>, ""),
          distance |-> NoDistance]
    ELSE LET dot_product == Dot(embedding1, stored.value)
             norms == Norm(embedding1) * Norm(stored.value)
         IN  IF norms = 0 THEN [exc |-> NoExc, distance |-> NaN]
             ELSE [exc |-> NoExc,
                   distance |-> Num(1000000 - RoundTo(dot_product * 1000000, norms))]

\* the decision with the cosine threshold of another recognition model
is_match_loose(d) == d.tag = "num" /\ d.v <= 680000

\* the decision with < in place of <=
is_match_strict(d) == d.tag = "num" /\ d.v < VERIFICATION_THRESHOLD

\* is_match = distance <= self.VERIFICATION_THRESHOLD (false for NaN)
is_match(d) == d.tag = "num" /\ d.v <= VERIFICATION_THRESHOLD

\* Python's min(a, x) and max(a, x) for a number a: x replaces a only if
\* it compares below (above) it, which NaN never does
PyMin(a, x) == IF x.tag = "num" /\ x.v < a THEN x ELSE Num(a)
PyMax(a, x) == IF x.tag = "num" /\ x.v > a THEN x ELSE Num(a)

\* (1 - distance) * 100, in ten-thousandths of a percent
raw_confidence(d) == IF d.tag = "num" THEN Num(1000000 - d.v) ELSE NaN

\* the confidence without the clamp
confidence_unclamped(d) == raw_confidence(d)

\* confidence = max(0, min(100, (1 - distance) * 100))
confidence_of_distance(d) == PyMax(0, PyMin(1000000, raw_confidence(d)))

\* round(x, n) of a float: NaN stays NaN
RoundFloat(x, unit) == IF x.tag = "num" THEN Num(RoundTo(x.v, unit)) ELSE x

\* the decision of verify_face: min() raises on an array
decide(d, score) ==
    IF d.tag = "array"
    THEN [exc |-> Exc("ValueError", "truth value of an array is ambiguous",
                      <<>>, ""),
          result |-> None]
    ELSE [exc |-> NoExc,
          result |-> Some([match |-> is_match(d),
                           confidence |-> RoundFloat(confidence_of_distance(d), 100).v,
                           similarity_score |-> RoundFloat(d, 100),
                           threshold |-> VERIFICATION_THRESHOLD,
                           quality_score |-> score])]

\* ------------------------------------------------------ pipeline stages
\* the order of the calls in enroll_face and verify_face
NextStage(ep, stage) ==
    CASE stage = "decode" -> "checkSize"
      [] stage = "checkSize" -> "locate"
      [] stage = "locate" -> "extract"
      [] stage = "extract" -> IF ep = "/verify" THEN "distance" ELSE "return"
      [] stage = "distance" -> "decide"
      [] stage = "decide" -> "return"

\* a stage that swallows its exception: the next statement runs all the same
StageEnds_swallow(stage, e) ==
    /\ trace' = Append(trace, [stage |-> stage,
                               outcome |-> IF e = NoExc THEN "ok" ELSE e.kind])
    /\ exc' = e
    /\ pc' = NextStage(endpoint, stage)

\* a stage ends: an exception leaves the service for the endpoint's except
\* clauses, otherwise the next statement runs
StageEnds(stage, e) ==
    /\ trace' = Append(trace, [stage |-> stage,
                               outcome |-> IF e = NoExc THEN "ok" ELSE e.kind])
    /\ exc' = e
    /\ pc' = IF e # NoExc THEN "except" ELSE NextStage(endpoint, stage)

Decode ==
    /\ pc = "decode"
    /\ StageEnds("decode", load_image_from_bytes(image))
    /\ UNCHANGED <<reqVars, importVars, callerVars, deepface_module,
                   detect_answer, pixel_stats,
                   extract_answer, face_region, quality_score, embedding,
                   distance, result, audit, response>>

CheckSize ==
    /\ pc = "checkSize"
    /\ StageEnds("checkSize", validate_image_size(image))
    /\ UNCHANGED <<reqVars, importVars, callerVars, deepface_module,
                   detect_answer, pixel_stats,
                   extract_answer, face_region, quality_score, embedding,
                   distance, result, audit, response>>

Locate ==
    /\ pc = "locate"
    /\ \E importOK \in BOOLEAN, ans \in DetectAnswers, pix \in PixelStats :
         LET g == get_deepface(deepface_module, importOK)
             r == detect_face(image, g, ans, pix)
         IN  /\ deepface_module' = g.module
             /\ Imported(importOK)
             /\ detect_answer' = IF g.raised = NoExc THEN Some(ans) ELSE None
             /\ pixel_stats' = r.pixel_stats
             /\ face_region' = r.face_region
             /\ quality_score' = r.quality_score
             /\ StageEnds("locate", r.exc)
    /\ UNCHANGED <<reqVars, callerVars, extract_answer, embedding, distance,
                   result, audit,
                   response>>

Extract ==
    /\ pc = "extract"
    /\ \E importOK \in BOOLEAN, ans \in ExtractAnswers :
         LET g == get_deepface(deepface_module, importOK)
             r == generate_embedding(g, ans)
         IN  /\ deepface_module' = g.module
             /\ Imported(importOK)
             /\ extract_answer' = IF g.raised = NoExc THEN Some(ans) ELSE None
             /\ embedding' = r.embedding
             /\ result' = IF r.exc = NoExc /\ endpoint = "/enroll"
                          THEN Some([embedding |-> r.embedding[1],
                                     quality_score |-> quality_score[1],
                                     face_size |-> [width |-> face_region[1].w,
                                                    height |-> face_region[1].h]])
                          ELSE None
             /\ StageEnds("extract", r.exc)
    /\ UNCHANGED <<reqVars, callerVars, detect_answer, pixel_stats, face_region,
                   quality_score, distance, audit, response>>

Distance ==
    /\ pc = "distance"
    /\ LET r == calculate_similarity(embedding[1], stored_embedding)
       IN  /\ distance' = r.distance
           /\ StageEnds("distance", r.exc)
    /\ UNCHANGED <<reqVars, importVars, callerVars, deepface_module,
                   detect_answer, pixel_stats,
                   extract_answer, face_region, quality_score, embedding, result,
                   audit, response>>

Decide ==
    /\ pc = "decide"
    /\ LET r == decide(distance, quality_score[1])
       IN  /\ result' = r.result
           /\ StageEnds("decide", r.exc)
    /\ UNCHANGED <<reqVars, importVars, callerVars, deepface_module,
                   detect_answer, pixel_stats,
                   extract_answer, face_region, quality_score, embedding,
                   distance, audit, response>>

\* ------------------------------------------------------------------ main.py
\* a message: the text, the values formatted into it and, for a wrapped
\* exception, str() of its cause
Msg(text) == [text |-> text, args |-> <<>>, cause |-> ""]
Str(e) == [text |-> e.text, args |-> e.args, cause |-> e.cause]

\* SecurityLogger.log_suspicious_activity(endpoint, reason, details)
log_suspicious_activity(log, ep, reason, details) ==
    Append(log, [endpoint |-> ep, reason |-> reason, details |-> details])

\* the call of log_suspicious_activity with a content_type keyword, which the
\* method does not have: Python raises TypeError before the body runs
invalid_file_type_log ==
    Exc("TypeError",
        "log_suspicious_activity() got an unexpected keyword argument 'content_type'",
        <<>>, "")

\* not image.content_type or not image.content_type.startswith('image/')
invalid_file_type(ct) ==
    \/ ct = None
    \/ ct[1] = <<>>
    \/ ~startswith(ct[1], IMAGE_PREFIX)

HTTPException(status_code, detail) ==
    Exc("HTTPException", detail, <<status_code>>, "")

\* the exception handler registered for HTTPException
http_exception_handler(status_code, detail) ==
    [status |-> status_code, body |-> [success |-> FALSE, message |-> detail]]

Answer(log, resp) == [audit |-> log, response |-> resp]

\* the try block of the /enroll handler up to the call of the service
enroll_entry(ct) ==
    IF invalid_file_type(ct) THEN invalid_file_type_log ELSE NoExc

\* the try block of the /verify handler up to the call of the service
verify_entry(se, ct) ==
    IF se.raw \in {"None", "empty"}
    THEN HTTPException(400, "stored_embedding is required")
    ELSE IF se.raw = "notjson"
    THEN HTTPException(400,
           "Invalid stored_embedding format. Must be valid JSON array.")
    ELSE IF invalid_file_type(ct) THEN invalid_file_type_log
    ELSE NoExc

\* the /enroll handler with FaceNotDetected raised as a client error like
\* the other validation errors
enroll_except_hard(e, log) ==
    IF e.kind \in {"FaceNotDetected", "MultipleFaces", "LowQuality", "InvalidImage"}
    THEN Answer(log_suspicious_activity(log, "/enroll", e.kind, Str(e)),
                http_exception_handler(400, Str(e)))
    ELSE Answer(log,
                http_exception_handler(500,
                  Msg("Internal server error during face enrollment")))

\* the except clauses of the /enroll handler
enroll_except(e, log) ==
    CASE e.kind = "FaceNotDetected" ->
           Answer(log_suspicious_activity(log, "/enroll", "No face detected", Str(e)),
                  [status |-> 200,
                   body |-> [success |-> FALSE, embedding |-> None,
                             message |-> Str(e), face_detected |-> FALSE,
                             quality_score |-> None]])
      [] e.kind = "MultipleFaces" ->
           Answer(log_suspicious_activity(log, "/enroll", "Multiple faces detected",
                                          Str(e)),
                  http_exception_handler(400, Str(e)))
      [] e.kind = "LowQuality" ->
           Answer(log_suspicious_activity(log, "/enroll", "Low quality image", Str(e)),
                  http_exception_handler(400, Str(e)))
      [] e.kind = "InvalidImage" ->
           Answer(log_suspicious_activity(log, "/enroll", "Invalid image", Str(e)),
                  http_exception_handler(400, Str(e)))
      [] OTHER ->
           Answer(log,
                  http_exception_handler(500,
                    Msg("Internal server error during face enrollment")))

\* the /verify handler with FaceNotDetected raised as a client error like
\* the other validation errors
verify_except_hard(e, log) ==
    IF e.kind \in {"FaceNotDetected", "MultipleFaces", "LowQuality", "InvalidImage"}
    THEN Answer(log_suspicious_activity(log, "/verify", e.kind, Str(e)),
                http_exception_handler(400, Str(e)))
    ELSE IF e.kind = "HTTPException"
    THEN Answer(log, http_exception_handler(e.args[1], Msg(e.text)))
    ELSE Answer(log,
                http_exception_handler(500,
                  Msg("Internal server error during face verification")))

\* the /verify handler with str(e) as the detail of the server error
verify_except_leaky(e, log) ==
    IF e.kind = "FaceNotDetected"
    THEN Answer(log_suspicious_activity(log, "/verify",
                                        "No face detected in verification", Str(e)),
                [status |-> 200,
                 body |-> [success |-> FALSE, match |-> FALSE, confidence |-> 0,
                           message |-> Str(e), similarity_score |-> None,
                           threshold_used |-> VERIFICATION_THRESHOLD]])
    ELSE IF e.kind \in {"MultipleFaces", "LowQuality", "InvalidImage"}
    THEN Answer(log_suspicious_activity(log, "/verify", e.kind, Str(e)),
                http_exception_handler(400, Str(e)))
    ELSE IF e.kind = "HTTPException"
    THEN Answer(log, http_exception_handler(e.args[1], Msg(e.text)))
    ELSE Answer(log, http_exception_handler(500, Str(e)))

\* the except clauses of the /verify handler
verify_except(e, log) ==
    CASE e.kind = "FaceNotDetected" ->
           Answer(log_suspicious_activity(log, "/verify",
                                          "No face detected in verification", Str(e)),
                  [status |-> 200,
                   body |-> [success |-> FALSE, match |-> FALSE, confidence |-> 0,
                             message |-> Str(e), similarity_score |-> None,
                             threshold_used |-> VERIFICATION_THRESHOLD]])
      [] e.kind = "MultipleFaces" ->
           Answer(log_suspicious_activity(log, "/verify",
                                          "Multiple faces in verification", Str(e)),
                  http_exception_handler(400, Str(e)))
      [] e.kind = "LowQuality" ->
           Answer(log_suspicious_activity(log, "/verify",
                                          "Low quality image in verification", Str(e)),
                  http_exception_handler(400, Str(e)))
      [] e.kind = "InvalidImage" ->
           Answer(log_suspicious_activity(log, "/verify",
                                          "Invalid image in verification", Str(e)),
                  http_exception_handler(400, Str(e)))
      [] e.kind = "HTTPException" ->
           Answer(log, http_exception_handler(e.args[1], Msg(e.text)))
      [] OTHER ->
           Answer(log,
                  http_exception_handler(500,
                    Msg("Internal server error during face verification")))

\* the return of the /enroll handler; EnrollmentResponse validates
\* quality_score (ge=0, le=100) inside the try block
enroll_return(res, log) ==
    IF res.quality_score < 0 \/ res.quality_score > 10000
    THEN enroll_except(Exc("ValidationError", "quality_score", <<>>, ""), log)
    ELSE Answer(log,
                [status |-> 200,
                 body |-> [success |-> TRUE, embedding |-> Some(res.embedding),
                           message |-> Msg("Face enrolled successfully"),
                           face_detected |-> TRUE,
                           quality_score |-> Some(res.quality_score)]])

\* the /verify handler after the service returned: a failed verification is
\* logged; VerificationResponse validates confidence (ge=0, le=100)
verify_return(res, log) ==
    LET logged ==
          IF ~res.match
          THEN log_suspicious_activity(log, "/verify", "Face verification failed",
                 [text |-> "Confidence, Threshold",
                  args |-> <<res.confidence, res.threshold>>, cause |-> ""])
          ELSE log
    IN  IF res.confidence < 0 \/ res.confidence > 10000
        THEN verify_except(Exc("ValidationError", "confidence", <<>>, ""), logged)
        ELSE Answer(logged,
                    [status |-> 200,
                     body |-> [success |-> TRUE, match |-> res.match,
                               confidence |-> res.confidence,
                               message |-> Msg("Verification completed successfully"),
                               similarity_score |-> Some(res.similarity_score),
                               threshold_used |-> res.threshold]])

pipelineVars == <<deepface_module, trace, detect_answer, pixel_stats,
                  extract_answer, face_region, quality_score, embedding,
                  distance, result>>

\* /enroll: read the upload, check its type
EnrollEntry ==
    /\ pc = "handler"
    /\ endpoint = "/enroll"
    /\ exc' = enroll_entry(content_type)
    /\ pc' = IF exc' = NoExc THEN "decode" ELSE "except"
    /\ UNCHANGED <<reqVars, importVars, callerVars, pipelineVars, audit, response>>

\* /verify: check and parse stored_embedding, read the upload, check its type
VerifyEntry ==
    /\ pc = "handler"
    /\ endpoint = "/verify"
    /\ exc' = verify_entry(stored_embedding, content_type)
    /\ pc' = IF exc' = NoExc THEN "decode" ELSE "except"
    /\ UNCHANGED <<reqVars, importVars, callerVars, pipelineVars, audit, response>>

Answered(a) ==
    /\ audit' = a.audit
    /\ response' = Some(a.response)
    /\ pc' = "done"

EnrollReturn ==
    /\ pc = "return"
    /\ endpoint = "/enroll"
    /\ Answered(enroll_return(result[1], audit))
    /\ UNCHANGED <<reqVars, importVars, callerVars, pipelineVars, exc>>

VerifyReturn ==
    /\ pc = "return"
    /\ endpoint = "/verify"
    /\ Answered(verify_return(result[1], audit))
    /\ UNCHANGED <<reqVars, importVars, callerVars, pipelineVars, exc>>

EnrollExcept ==
    /\ pc = "except"
    /\ endpoint = "/enroll"
    /\ Answered(enroll_except(exc, audit))
    /\ UNCHANGED <<reqVars, importVars, callerVars, pipelineVars, exc>>

VerifyExcept ==
    /\ pc = "except"
    /\ endpoint = "/verify"
    /\ Answered(verify_except(exc, audit))
    /\ UNCHANGED <<reqVars, importVars, callerVars, pipelineVars, exc>>

\* ------------------------------------------- get_deepface, step by step
\* Threads inside get_deepface: the function takes no lock, so a thread can
\* be interrupted between the test of the global, the import and the
\* assignment.
requestVars == <<pc, reqVars, trace, detect_answer, pixel_stats, extract_answer,
                 face_region, quality_score, embedding, distance, result, exc,
                 audit, response>>

\* if deepface_module is None:
GetDeepfaceTest(c) ==
    /\ caller_pc[c] = "out"
    /\ caller_pc' = [caller_pc EXCEPT
                       ![c] = IF deepface_module = "None" THEN "import"
                              ELSE "return"]
    /\ UNCHANGED <<requestVars, deepface_module, importVars, caller_df,
                   caller_handle>>

\* import deepface as df
GetDeepfaceImport(c) ==
    /\ caller_pc[c] = "import"
    /\ \E ok \in BOOLEAN :
         LET r == import_deepface(sys_modules, init_runs, ok)
         IN  /\ sys_modules' = r.sys
             /\ init_runs' = r.runs
             /\ caller_df' = IF r.raised THEN caller_df
                             ELSE [caller_df EXCEPT ![c] = r.df]
             /\ caller_pc' = [caller_pc EXCEPT
                                ![c] = IF r.raised THEN "out" ELSE "assign"]
    /\ UNCHANGED <<requestVars, deepface_module, handle_id, caller_handle>>

\* deepface_module = df
GetDeepfaceAssign(c) ==
    /\ caller_pc[c] = "assign"
    /\ deepface_module' = "deepface"
    /\ handle_id' = caller_df[c]
    /\ caller_pc' = [caller_pc EXCEPT ![c] = "return"]
    /\ UNCHANGED <<requestVars, sys_modules, init_runs, caller_df,
                   caller_handle>>

\* return deepface_module
GetDeepfaceReturn(c) ==
    /\ caller_pc[c] = "return"
    /\ caller_handle' = [caller_handle EXCEPT ![c] = handle_id]
    /\ caller_pc' = [caller_pc EXCEPT ![c] = "out"]
    /\ UNCHANGED <<requestVars, deepface_module, importVars, caller_df>>

NextCallers ==
    \E c \in Callers :
        \/ GetDeepfaceTest(c)
        \/ GetDeepfaceImport(c)
        \/ GetDeepfaceAssign(c)
        \/ GetDeepfaceReturn(c)

SpecCallers == Init /\ [][NextCallers]_vars

Next ==
    \/ Request
    \/ EnrollEntry
    \/ VerifyEntry
    \/ Decode
    \/ CheckSize
    \/ Locate
    \/ Extract
    \/ Distance
    \/ Decide
    \/ EnrollReturn
    \/ VerifyReturn
    \/ EnrollExcept
    \/ VerifyExcept
    \/ Sent

Spec == Init /\ [][Next]_vars

\* ================================================================= claims
PipelineOrder ==
    <<"decode", "checkSize", "locate", "extract", "distance", "decide">>
StagesOf(ep) ==
    IF ep = "/verify" THEN PipelineOrder ELSE SubSeq(PipelineOrder, 1, 4)
StageNames == {PipelineOrder[i] : i \in DOMAIN PipelineOrder}
Ran(n) == Len(trace) >= n
LastOutcome == trace[Len(trace)].outcome

\* C1: the stages of a call run in the fixed order decode, checkSize, locate,
\* extract (then distance, decide for verify), each at most once; a stage
\* runs only after every earlier stage succeeded; the first failing stage
\* ends the call with its failure's kind and with no result; a verify
\* result exists only after decode, checkSize, locate and extract succeeded.
C1_StageOrder ==
    /\ Len(trace) <= Len(StagesOf(endpoint))
    /\ \A i \in 1..Len(trace) : trace[i].stage = StagesOf(endpoint)[i]
    /\ \A i \in 1..(Len(trace) - 1) : trace[i].outcome = "ok"
    /\ pc \in StageNames => pc = PipelineOrder[Len(trace) + 1]
    /\ (Ran(1) /\ LastOutcome # "ok") =>
          /\ pc \in {"except", "done"}
          /\ exc.kind = LastOutcome
          /\ result = None
    /\ (endpoint = "/verify" /\ result # None) =>
          /\ Ran(4)
          /\ \A i \in 1..4 : trace[i] = [stage |-> PipelineOrder[i], outcome |-> "ok"]

\* a verify call that failed in its third stage and was answered
C1_Witness ==
    /\ pc = "done"
    /\ endpoint = "/verify"
    /\ Len(trace) = 3
    /\ LastOutcome = "MultipleFaces"
    /\ result = None

TooSmallText == "Image too small. Minimum size"
TooLargeText == "Image too large. Maximum size"
SizeAccepted == trace[2].outcome = "ok"
SizeRejectedWith(text) ==
    /\ trace[2].outcome = "LowQuality"
    /\ exc.kind = "LowQuality"
    /\ exc.text = text

\* C2 as stated: the size check accepts iff height and width are both in
\* [150, 4096]; otherwise it fails with LowQuality, saying "too small" when
\* a dimension is below 150 and "too large" when a dimension is above 4096.
C2_AsStated ==
    Ran(2) =>
      /\ SizeAccepted <=> (/\ 150 <= image.height /\ image.height <= 4096
                           /\ 150 <= image.width /\ image.width <= 4096)
      /\ ~SizeAccepted => trace[2].outcome = "LowQuality"
      /\ (image.height < 150 \/ image.width < 150) => SizeRejectedWith(TooSmallText)
      /\ (image.height > 4096 \/ image.width > 4096) => SizeRejectedWith(TooLargeText)

\* C2 amended: the size check accepts iff height and width are both in
\* [150, 4096]; otherwise it fails with LowQuality, saying "too small" when
\* a dimension is below 150, and "too large" when a dimension is above 4096
\* and none is below 150.
C2_SizeCheck ==
    Ran(2) =>
      /\ SizeAccepted <=> (/\ 150 <= image.height /\ image.height <= 4096
                           /\ 150 <= image.width /\ image.width <= 4096)
      /\ ~SizeAccepted => trace[2].outcome = "LowQuality"
      /\ (image.height < 150 \/ image.width < 150) => SizeRejectedWith(TooSmallText)
      /\ ((image.height > 4096 \/ image.width > 4096)
            /\ ~(image.height < 150 \/ image.width < 150))
           => SizeRejectedWith(TooLargeText)

\* an image with one dimension below 150 and the other above 4096 was checked
C2_Witness ==
    /\ Ran(2)
    /\ image.height = 149
    /\ image.width = 4097
    /\ SizeRejectedWith(TooSmallText)

\* the detection engine answered a list of candidates for this request
EngineAnswered == Ran(3) /\ detect_answer # None /\ ~detect_answer[1].raises
Faces == detect_answer[1].faces
\* the positions of the candidates whose confidence is present and above 0.9
Confident ==
    {i \in DOMAIN Faces :
        Faces[i].confidence # None /\ Faces[i].confidence[1] > 90}
LocateFailedWith(kind) == trace[3].outcome = kind /\ exc.kind = kind

\* C3: _detect_face succeeds only when exactly one candidate has confidence
\* strictly above 0.9; with none left it fails with FaceNotDetected, with two
\* or more with MultipleFaces, and the message carries their count.
C3_ExactlyOneFace ==
    EngineAnswered =>
      /\ trace[3].outcome = "ok" => Cardinality(Confident) = 1
      /\ Cardinality(Confident) = 0 => LocateFailedWith("FaceNotDetected")
      /\ Cardinality(Confident) >= 2 =>
            /\ LocateFailedWith("MultipleFaces")
            /\ exc.args = <<Cardinality(Confident)>>

\* a candidate at exactly 0.9 was dropped and the only other one accepted
C3_Witness ==
    /\ EngineAnswered
    /\ Len(Faces) = 2
    /\ \E i \in DOMAIN Faces : Faces[i].confidence = Some(90)
    /\ trace[3].outcome = "ok"

SoleFace == Faces[CHOOSE i \in Confident : TRUE].facial_area

\* C4: a region returned by _detect_face is at least 80 wide and 80 high and
\* its quality score is at least 30.0; a sole candidate narrower or lower
\* than 80 fails with LowQuality and no quality score is computed for it; a
\* computed score below 30.0 fails with LowQuality.
C4_FaceGate ==
    Ran(3) =>
      /\ trace[3].outcome = "ok" =>
            /\ face_region # None /\ quality_score # None
            /\ face_region[1].w >= 80 /\ face_region[1].h >= 80
            /\ quality_score[1] >= 3000
      /\ (EngineAnswered /\ Cardinality(Confident) = 1
            /\ (SoleFace.w < 80 \/ SoleFace.h < 80)) =>
            /\ LocateFailedWith("LowQuality")
            /\ exc.text = "Face too small"
            /\ quality_score = None
      /\ (quality_score # None /\ quality_score[1] < 3000) =>
            /\ LocateFailedWith("LowQuality")
            /\ exc.text = "Image quality too low"

\* a face of exactly 80 by 80 whose score is just above 30.0 was returned
C4_Witness ==
    /\ Ran(3)
    /\ trace[3].outcome = "ok"
    /\ face_region[1].w = 80 /\ face_region[1].h = 80
    /\ quality_score[1] >= 3000 /\ quality_score[1] < 3010

\* verify_face computed a distance and returned its decision
Decided == endpoint = "/verify" /\ result # None
Clamp(lo, hi, x) == Max(lo, Min(hi, x))

\* C5: the match flag returned by verify_face equals (d <= threshold) for
\* the distance d it computed (a NaN distance compares false): a distance of
\* exactly 0.40 is a match, a larger one is not, and the threshold in the
\* result is the one that was applied, 0.40.
C5_MatchIffWithinThreshold ==
    Decided =>
      /\ result[1].match <=> (distance.tag = "num" /\ distance.v <= result[1].threshold)
      /\ result[1].threshold = 400000
      /\ distance = Num(400000) => result[1].match
      /\ (distance.tag = "num" /\ distance.v > 400000) => ~result[1].match

\* the distance was exactly the threshold and the decision a match
C5_Witness ==
    /\ Decided
    /\ distance = Num(400000)
    /\ result[1].match

\* C6 as stated: the confidence returned by verify_face equals
\* clamp(0, 100, (1 - d) * 100) and lies in [0, 100]; it is 0 for d >= 1 and
\* 100 for d <= 0.
C6_AsStated ==
    Decided =>
      /\ distance.tag = "num" =>
            result[1].confidence * 100 = Clamp(0, 1000000, 1000000 - distance.v)
      /\ 0 <= result[1].confidence /\ result[1].confidence <= 10000
      /\ (distance.tag = "num" /\ distance.v >= 1000000) => result[1].confidence = 0
      /\ (distance.tag = "num" /\ distance.v <= 0) => result[1].confidence = 10000

\* C6 amended: the confidence returned by verify_face equals
\* clamp(0, 100, (1 - d) * 100) rounded to two decimals for every distance d
\* that is a number; it lies in [0, 100] for every d, NaN included; it is 0
\* for d >= 1 and 100 for d <= 0.
C6_ConfidenceClamped ==
    Decided =>
      /\ distance.tag = "num" =>
            result[1].confidence
              = RoundTo(Clamp(0, 1000000, 1000000 - distance.v), 100)
      /\ 0 <= result[1].confidence /\ result[1].confidence <= 10000
      /\ (distance.tag = "num" /\ distance.v >= 1000000) => result[1].confidence = 0
      /\ (distance.tag = "num" /\ distance.v <= 0) => result[1].confidence = 10000

\* a distance of 0.615385 was decided with confidence 38.46
C6_Witness ==
    /\ Decided
    /\ distance = Num(615385)
    /\ result[1].confidence = 3846

EnrollAnswered == pc = "done" /\ endpoint = "/enroll" /\ response # None

\* C7: at /enroll a FaceNotDetected failure is answered with status 200,
\* success=false, face_detected=false and no embedding; MultipleFaces,
\* LowQuality and InvalidImage are each answered with status 400 and the
\* failure's message.
C7_EnrollSoftAndHardFailures ==
    EnrollAnswered =>
      /\ exc.kind = "FaceNotDetected" =>
            /\ response[1].status = 200
            /\ response[1].body.success = FALSE
            /\ response[1].body.face_detected = FALSE
            /\ response[1].body.embedding = None
      /\ exc.kind \in {"MultipleFaces", "LowQuality", "InvalidImage"} =>
            /\ response[1].status = 400
            /\ response[1].body = [success |-> FALSE, message |-> Str(exc)]

\* /enroll answered a request in which no face was detected
C7_Witness ==
    /\ EnrollAnswered
    /\ exc.kind = "FaceNotDetected"
    /\ response[1].status = 200

\* the request was rejected for one of the reasons the audit trail covers
Rejected ==
    \/ exc.kind \in {"FaceNotDetected", "MultipleFaces", "LowQuality"}
    \/ /\ invalid_file_type(content_type)
       /\ endpoint = "/verify" => stored_embedding.raw \in {"array", "scalar", "other"}
    \/ endpoint = "/verify" /\ result # None /\ ~result[1].match

\* C8: every rejected request on /enroll or /verify (no face, multiple
\* faces, low quality, invalid file type, completed verification without a
\* match) has written exactly one audit record, with the endpoint, a reason
\* and details, when its response exists.
C8_OneAuditRecordPerRejection ==
    (pc = "done" /\ Rejected) =>
      /\ Len(audit) = 1
      /\ audit[1].endpoint = endpoint
      /\ audit[1].reason # ""
      /\ DOMAIN audit[1] = {"endpoint", "reason", "details"}

Fixed500(ep) ==
    [status |-> 500,
     body |-> [success |-> FALSE,
               message |-> Msg(IF ep = "/enroll"
                               THEN "Internal server error during face enrollment"
                               ELSE "Internal server error during face verification")]]

\* C9 as stated: an exception in /enroll or /verify that is not one of the
\* four validation errors is answered with status 500 and a message that is
\* a fixed string of the endpoint.
C9_AsStated ==
    (pc = "done" /\ exc.kind \notin (ValidationKinds \cup {"None"})) =>
       response = Some(Fixed500(endpoint))

\* C9 amended: an exception in /enroll or /verify that is neither one of the
\* four validation errors nor an HTTPException raised by the handler itself
\* (which /verify re-raises with its own status and detail) is answered with
\* status 500 and a message that is a fixed string of the endpoint: the
\* response is the same whatever the exception holds.
C9_GenericServerError ==
    (pc = "done" /\ exc.kind \notin (ValidationKinds \cup {"None", "HTTPException"})) =>
       response = Some(Fixed500(endpoint))

\* /verify answered a request in which the embedding engine raised
C9_Witness ==
    /\ pc = "done"
    /\ endpoint = "/verify"
    /\ exc.kind = "EngineError"
    /\ exc.text = "ResourceExhausted"
    /\ response = Some(Fixed500("/verify"))

\* C10: every error raised by the detection engine (or by its import) leaves
\* _detect_face as FaceNotDetected; FaceNotDetected, MultipleFaces and
\* LowQuality raised inside it leave with their kind; no other kind leaves.
C10_DetectErrorKinds ==
    Ran(3) =>
      /\ trace[3].outcome \in {"ok", "FaceNotDetected", "MultipleFaces", "LowQuality"}
      /\ (detect_answer = None \/ detect_answer[1].raises) =>
            /\ LocateFailedWith("FaceNotDetected")
            /\ exc.text = "Face detection failed"
            /\ exc.cause # ""
      /\ (EngineAnswered /\ Cardinality(Confident) = 0) =>
            LocateFailedWith("FaceNotDetected") /\ exc.cause = ""
      /\ (EngineAnswered /\ Cardinality(Confident) >= 2) =>
            LocateFailedWith("MultipleFaces")
      /\ (quality_score # None /\ quality_score[1] < 3000) =>
            LocateFailedWith("LowQuality")

\* the detection engine raised and the stage failed with FaceNotDetected
C10_Witness ==
    /\ Ran(3)
    /\ detect_answer # None
    /\ detect_answer[1].raises
    /\ LocateFailedWith("FaceNotDetected")
    /\ exc.cause = detect_answer[1].detail

\* the embedding engine was called for this request
EngineAsked == Ran(4) /\ extract_answer # None

\* C11: _generate_embedding fails with FaceNotDetected when the engine
\* answers an empty list; an error the engine raises leaves the stage with
\* its own kind and text, and the endpoint answers it with the generic
\* server error, not with the soft no-face response.
C11_ExtractErrorKinds ==
    EngineAsked =>
      /\ (~extract_answer[1].raises /\ extract_answer[1].objs = <<>>) =>
            /\ trace[4].outcome = "FaceNotDetected"
            /\ exc.kind = "FaceNotDetected"
      /\ extract_answer[1].raises =>
            /\ trace[4].outcome = "EngineError"
            /\ exc = Exc("EngineError", extract_answer[1].detail, <<>>, "")
            /\ pc = "done" =>
                  /\ response = Some(Fixed500(endpoint))
                  /\ audit = <<>>

\* /enroll answered a request in which the embedding engine raised
C11_Witness ==
    /\ pc = "done"
    /\ endpoint = "/enroll"
    /\ EngineAsked
    /\ extract_answer[1].raises
    /\ response[1].status = 500

\* C12: _calculate_quality_score always returns, its result is within
\* [0, 100] for every image and face region, and it is 50.0 when the crop is
\* empty.
C12_QualityScoreInRange ==
    quality_score # None =>
      /\ 0 <= quality_score[1] /\ quality_score[1] <= 10000
      /\ (SoleFace.x >= image.width \/ SoleFace.y >= image.height) =>
            quality_score[1] = 5000

\* an engine ran out of memory or of another resource in this request
ResourceFailureInLocate ==
    /\ Ran(3)
    /\ detect_answer # None
    /\ detect_answer[1].raises
    /\ detect_answer[1].detail = "MemoryError"
ResourceFailureInExtract ==
    /\ EngineAsked
    /\ extract_answer[1].raises
    /\ extract_answer[1].detail = "ResourceExhausted"

Compared == endpoint = "/verify" /\ Ran(5) /\ embedding # None
SameDimension ==
    /\ stored_embedding.raw = "array"
    /\ Len(stored_embedding.value) = Len(embedding[1])
AllZero(v) == \A i \in 1..Len(v) : v[i] = 0

\* C16: a verify request whose stored embedding is not an array of the live
\* embedding's dimension (a shorter or longer list, an empty list, a JSON
\* value that is no list of numbers) never produces a decision: it ends in an
\* error, which /verify answers with the generic server error.
C16_DimensionMismatchIsError ==
    (Compared /\ ~SameDimension) =>
      /\ result = None
      /\ pc \in {"except", "done"} => exc.kind \in {"ValueError", "TypeError"}
      /\ pc = "done" => response = Some(Fixed500("/verify"))

\* /verify answered a request whose stored embedding is shorter than the
\* live one
C16_Witness ==
    /\ pc = "done"
    /\ Compared
    /\ stored_embedding.raw = "array"
    /\ Len(stored_embedding.value) < Len(embedding[1])
    /\ response[1].status = 500

\* C17: a verify call in which the stored or the live embedding is all-zero
\* ends in an InvalidEmbedding error and returns no decision.
C17_ZeroVectorIsInvalidEmbedding ==
    (Compared /\ SameDimension
       /\ (AllZero(embedding[1]) \/ AllZero(stored_embedding.value))
       /\ pc \in {"return", "except", "done"}) =>
      /\ result = None
      /\ exc.kind = "InvalidEmbedding"

\* C18: the distance of a non-zero embedding to an identical copy is 0
\* within the tolerance of 1e-6, and the decision for it is a match with a
\* confidence above 95.
C18_IdenticalIsMatch ==
    (Compared /\ SameDimension /\ stored_embedding.value = embedding[1]
       /\ ~AllZero(embedding[1])) =>
      /\ distance.tag = "num"
      /\ Abs(distance.v) <= 1
      /\ Ran(6) =>
            /\ result # None
            /\ result[1].match
            /\ result[1].confidence > 9500

\* verify decided on an embedding and an identical stored copy
C18_Witness ==
    /\ Decided
    /\ stored_embedding.value = embedding[1]
    /\ embedding[1] = <<3, 4>>
    /\ result[1].match

\* C19: the distance does not depend on which of two equal-length vectors is
\* the live one and which the stored one (both ways it is NaN when one of
\* them is all-zero), and neither does the match decision.
C19_Symmetric ==
    (Compared /\ SameDimension) =>
      LET swapped == calculate_similarity(
                         stored_embedding.value,
                         [raw |-> "array", value |-> embedding[1]])
      IN  /\ swapped.exc = NoExc
          /\ swapped.distance = distance
          /\ is_match(swapped.distance) = is_match(distance)

\* the distance of two different non-zero vectors was computed
C19_Witness ==
    /\ Compared
    /\ SameDimension
    /\ embedding[1] = <<3, 4>>
    /\ stored_embedding.value = <<1, 0>>
    /\ distance = Num(400000)

\* v is [k] * n for a k other than 0
ConstantVector(v) == v # <<>> /\ v[1] # 0 /\ \A i \in 1..Len(v) : v[i] = v[1]
Negated(v) == [i \in 1..Len(v) |-> 0 - v[i]]

\* C20: the distance of [k] * n to [-k] * n, k # 0, is at least 1.5, and the
\* decision for the two at the default threshold is no match.
C20_OppositeIsNoMatch ==
    (Compared /\ SameDimension /\ ConstantVector(embedding[1])
       /\ stored_embedding.value = Negated(embedding[1])) =>
      /\ distance.tag = "num"
      /\ distance.v >= 1500000
      /\ Ran(6) => (result # None /\ ~result[1].match)

\* verify decided on [1, 1, 1, 1] against [-1, -1, -1, -1]
C20_Witness ==
    /\ Decided
    /\ embedding[1] = <<1, 1, 1, 1>>
    /\ stored_embedding.value = <<-1, -1, -1, -1>>
    /\ ~result[1].match
    /\ distance = Num(2000000)

\* the answer of the endpoint ep to an exception and to a result, with
\* nothing logged before
ExceptAnswer(ep, e) ==
    IF ep = "/enroll" THEN enroll_except(e, <<>>) ELSE verify_except(e, <<>>)
ReturnAnswer(ep, res) ==
    IF ep = "/enroll" THEN enroll_return(res, <<>>) ELSE verify_return(res, <<>>)

\* enroll_face / verify_face run in a process that served no call before,
\* on the inputs of the request and with the answers the engines gave it
\* (an engine that was not reached could not be imported)
FreshCall ==
    LET decoded == load_image_from_bytes(image)
        sized == validate_image_size(image)
        g3 == get_deepface("None", detect_answer # None)
        located == detect_face(
                     image, g3,
                     IF detect_answer # None THEN detect_answer[1]
                     ELSE CHOOSE a \in DetectAnswers : TRUE,
                     IF pixel_stats # None THEN pixel_stats[1]
                     ELSE CHOOSE x \in PixelStats : TRUE)
        g4 == get_deepface(g3.module, extract_answer # None)
        extracted == generate_embedding(
                       g4,
                       IF extract_answer # None THEN extract_answer[1]
                       ELSE CHOOSE a \in ExtractAnswers : TRUE)
        compared == calculate_similarity(extracted.embedding[1], stored_embedding)
        decided == decide(compared.distance, located.quality_score[1])
    IN  IF decoded # NoExc THEN [exc |-> decoded, result |-> None]
        ELSE IF sized # NoExc THEN [exc |-> sized, result |-> None]
        ELSE IF located.exc # NoExc THEN [exc |-> located.exc, result |-> None]
        ELSE IF extracted.exc # NoExc THEN [exc |-> extracted.exc, result |-> None]
        ELSE IF endpoint = "/enroll"
        THEN [exc |-> NoExc,
              result |-> Some([embedding |-> extracted.embedding[1],
                               quality_score |-> located.quality_score[1],
                               face_size |-> [width |-> located.face_region[1].w,
                                              height |-> located.face_region[1].h]])]
        ELSE IF compared.exc # NoExc THEN [exc |-> compared.exc, result |-> None]
        ELSE decided

FreshOutcome ==
    LET entry == IF endpoint = "/enroll" THEN enroll_entry(content_type)
                 ELSE verify_entry(stored_embedding, content_type)
    IN  IF entry # NoExc THEN ExceptAnswer(endpoint, entry)
        ELSE IF FreshCall.exc # NoExc THEN ExceptAnswer(endpoint, FreshCall.exc)
        ELSE ReturnAnswer(endpoint, FreshCall.result[1])

C14_InitialisedOnce ==
    /\ init_runs <= 1
    /\ init_runs = 0 =>
          /\ deepface_module = "None"
          /\ \A c \in Callers : caller_handle[c] = 0
    /\ deepface_module # "None" =>
          /\ init_runs = 1
          /\ handle_id # 0
          /\ handle_id = sys_modules
    /\ \A c \in Callers :
          /\ caller_pc[c] = "return" => deepface_module # "None"
          /\ caller_handle[c] # 0 => caller_handle[c] = sys_modules

\* every caller found the global unset and executed the import statement
\* itself, and every one of them was returned the one module object
C14_Witness ==
    /\ init_runs = 1
    /\ \A c \in Callers :
          /\ caller_df[c] # 0
          /\ caller_pc[c] = "out"
          /\ caller_handle[c] = handle_id

\* the handler reached its file-type check and the upload failed it
FileTypeRefused ==
    /\ pc = "done"
    /\ invalid_file_type(content_type)
    /\ endpoint = "/verify" =>
          stored_embedding.raw \in {"array", "scalar", "other"}

\* C21: a request to /enroll or /verify whose upload has a missing or
\* non-image content type (and, on /verify, a stored_embedding that parsed)
\* is answered with status 400 and the message that only image files are
\* accepted, and no stage of the face pipeline ran for it.
C21_InvalidFileTypeIs400 ==
    FileTypeRefused =>
      /\ response[1].status = 400
      /\ response[1].body.message =
            Msg("Invalid file type. Only image files are accepted.")
      /\ trace = <<>>

\* C22: in every result of verify_face a match has a confidence of at least
\* 60 and a confidence below 60 has no match, and the response built from the
\* result reports the same two values.
C22_MatchImpliesConfidence ==
    Decided =>
      /\ result[1].match => result[1].confidence >= 6000
      /\ result[1].confidence < 6000 => ~result[1].match
      /\ (pc = "done" /\ "match" \in DOMAIN response[1].body) =>
            /\ response[1].body.match = result[1].match
            /\ response[1].body.confidence = result[1].confidence
            /\ response[1].body.match => response[1].body.confidence >= 6000

\* /verify answered a match at the threshold distance 0.40 with confidence 60
C22_Witness ==
    /\ pc = "done"
    /\ Decided
    /\ distance = Num(VERIFICATION_THRESHOLD)
    /\ response[1].body.match
    /\ response[1].body.confidence = 6000

\* C23: at /verify the response to a FaceNotDetected failure has
\* success=false, match=false, confidence 0 and the configured threshold,
\* and no response has match=true together with success=false.
C23_NoFaceResponse ==
    (pc = "done" /\ endpoint = "/verify") =>
      /\ exc.kind = "FaceNotDetected" =>
            /\ response[1].status = 200
            /\ DOMAIN response[1].body =
                  {"success", "match", "confidence", "message",
                   "similarity_score", "threshold_used"}
            /\ response[1].body.success = FALSE
            /\ response[1].body.match = FALSE
            /\ response[1].body.confidence = 0
            /\ response[1].body.threshold_used = VERIFICATION_THRESHOLD
      /\ ("match" \in DOMAIN response[1].body /\ response[1].body.match) =>
            response[1].body.success

\* /verify answered a request in which no face was detected
C23_Witness ==
    /\ pc = "done"
    /\ endpoint = "/verify"
    /\ exc.kind = "FaceNotDetected"
    /\ response[1].body.success = FALSE
    /\ response[1].body.confidence = 0

====
